---- MODULE Spec2Model ----
(***************************************************************************)
(* Model of the unified call lifecycle of the VoIP backend: the in-memory  *)
(* call repository, the Asterisk (AMI) service, the Twilio service and the *)
(* unified call service that routes API operations to one of them.         *)
(*                                                                         *)
(* Execution model.  The program is single-threaded JavaScript.  A handler *)
(* runs synchronously up to its first `await`; what follows every `await`  *)
(* is a continuation.  An in-flight asynchronous operation is a task whose *)
(* pc names the continuation it will run next.  A continuation that waits  *)
(* on an already settled promise (the repository functions) is a microtask *)
(* and runs before any further external stimulus is taken; a continuation  *)
(* that waits on real I/O (an AMI response, the Twilio REST API) runs      *)
(* after the stimulus that settles it.  External stimuli (API requests,    *)
(* socket data, webhooks, timers) are taken only when no microtask is      *)
(* pending (Quiescent).  The order among pending microtasks is left open.  *)
(*                                                                         *)
(* Data abstraction.  The from/to addresses of a call are carried by the   *)
(* code without influencing any decision modelled here and are omitted.    *)
(* channel and twilioCallSid are kept as "present or not", the only thing  *)
(* the code tests about them.  Time is in milliseconds, durations are in   *)
(* whole seconds.                                                          *)
(*                                                                         *)
(* Specifications.  Spec is the call lifecycle: API operations, AMI events *)
(* and Twilio webhooks acting on the repository.  SpecConn is the AMI      *)
(* connection: socket callbacks, the reconnect timer and reconnect().      *)
(* SpecRoute is call initiation: provider routing and the calls it starts; *)
(* SpecRouteLive adds weak fairness on the continuations of a started     *)
(* call.  SpecFrame is the framing of the inbound byte stream, SpecWire    *)
(* the text of an outbound command, SpecStore the repository on its own.   *)
(* SpecLife is the life of the AMI client: connection, simulation         *)
(* intervals and cleanup().  SpecEvents is the AMI event handlers with the *)
(* microtask queue first in, first out and the order of events observed.   *)
(* SpecClock is the operations that begin and end calls while the system   *)
(* clock moves.                                                            *)
(***************************************************************************)
EXTENDS Integers, Sequences, FiniteSets, TLC

VARIABLES
  calls,          \* call repository: call id -> Call
  tasks,          \* in-flight asynchronous operations, by slot
  emitted,        \* 'callEvent' notifications emitted by the last step
  returned,       \* outcomes of the operations that settled in the last step
  isConnected,    \* asterisk.service isConnected
  connectionAttempts, \* asterisk.service connectionAttempts
  reconnectTimer, \* asterisk.service reconnectTimer: 0 (null), or the delay
                  \* in ms the pending timer was armed with
  amiSocket,      \* asterisk.service amiSocket: 0 (null), or the socket
  sockets,        \* the net.Socket objects created: socket -> its state
  reconnectTimers, \* how many timeouts armed by scheduleReconnect are live
  simulationIntervals, \* asterisk.service simulationIntervals: how many
                  \* intervals it holds
  initialConnect, \* the socket of the connectToAsterisk() call made at
                  \* construction while its promise is pending, else 0
  cleaned,        \* cleanup() has returned and reconnect() was not called
                  \* since
  pendingActions, \* asterisk.service pendingActions: the commands awaiting
                  \* a response, each with its ActionID and its caller
  actionId,       \* asterisk.service actionId counter
  written,        \* the commands written to AMI sockets so far
  routed,         \* observation of the last initiateCall: the request and
                  \* the provider determineProvider returned
  client,         \* twilio.service: REST client was configured
  clock,          \* wall clock (milliseconds) read by new Date() / Date.now()
                  \* (SpecClock is the specification where it changes)
  lastAct,        \* observation of the last step taken
  stream,         \* the bytes the PBX sends on the socket
  received,       \* how many bytes of stream 'data' events have delivered
  buffer,         \* the 'data' handler's buffer
  dispatched,     \* the messages the 'data' handler passed to handleAmiMessage
  wireIn,         \* a command handed to sendAmiCommand's message builder
  wireOut,        \* the message text built from it
  repoCall,       \* observation of the last call of a repository function:
                  \* the function, its arguments and what it returned
  expected,       \* where the order of events is observed: the store and
                  \* the notifications that handling the events of the last
                  \* data chunk one after the other results in
  log             \* and the notifications emitted since that chunk

connVars == <<connectionAttempts, reconnectTimer, amiSocket, sockets,
              reconnectTimers, simulationIntervals, initialConnect, cleaned>>
amiVars == <<pendingActions, actionId, written>>
frameVars == <<stream, received, buffer, dispatched>>
wireVars == <<wireIn, wireOut>>
orderVars == <<expected, log>>

vars == <<calls, tasks, emitted, returned, isConnected, client, clock, lastAct,
          connVars, amiVars, routed, frameVars, wireVars, repoCall, orderVars>>

----------------------------------------------------------------------------
(* Bounds *)

NumCalls == 1     \* distinct call identifiers
MaxTasks == 2     \* asynchronous operations in flight at once
MaxBatch == 2     \* API operations started by one stimulus
MaxChunk == 2     \* AMI messages in one socket data chunk
MaxSockets == 2   \* AMI sockets alive at once
MaxActionId == 1  \* ActionIDs a received message may carry
MaxToLen == 7     \* characters of a destination address
MaxUnits == 6     \* characters and line ends in an inbound stream
MaxCounter == 12  \* value of the actionId counter when a message is built
MaxStoreIds == 2  \* identifiers used with the repository on its own
MaxClock == 1     \* whole seconds the wall clock may show

CallIds == 1 .. NumCalls
NoId    == 0      \* an absent Uniqueid / CallSid
Slots   == 1 .. MaxTasks

----------------------------------------------------------------------------
(* Call records and the repository *)

CallStatuses == {"incoming", "outgoing", "connected", "ended", "failed"}
Terminal     == {"ended", "failed"}

Unset == <<>>                 \* an optional field that is not set
Set(v) == <<v>>

NoCall == [status |-> "none"] \* getCall's null

Call(id, status, provider, start, channel, sid) ==
  [id |-> id, status |-> status, provider |-> provider,
   startTime |-> start, endTime |-> Unset, duration |-> Unset,
   channel |-> channel, twilioCallSid |-> sid]

\* Math.floor((endTime.getTime() - call.startTime.getTime()) / 1000)
MsPerSecond == 1000

durationBetween(endTime, startTime) == (endTime - startTime) \div MsPerSecond

createCall(store, call) ==
  [i \in DOMAIN store \cup {call.id} |-> IF i = call.id THEN call ELSE store[i]]

getCall(store, id) ==
  IF id \in DOMAIN store THEN store[id] ELSE NoCall

\* { ...call, ...updates }
spread(call, updates) ==
  [f \in DOMAIN call \cup DOMAIN updates |->
     IF f \in DOMAIN updates THEN updates[f] ELSE call[f]]

\* updateCall: the record is replaced by defaults overlaid with the updates
updateCall_m(store, id, updates) ==
  IF id \notin DOMAIN store THEN store
  ELSE [store EXCEPT ![id] =
          spread(Call(id, "incoming", "asterisk", 0, FALSE, FALSE), updates)]

updateCall(store, id, updates) ==
  IF id \notin DOMAIN store THEN store
  ELSE [store EXCEPT ![id] = spread(store[id], updates)]

\* what updateCall returns: the updated record, or null
updateCall_returns(store, id, updates) ==
  IF id \notin DOMAIN store THEN NoCall ELSE spread(store[id], updates)

HasFresh(store) == CallIds \ DOMAIN store # {}

\* generateId(): an identifier not in use (the least one, by symmetry)
generateId(store) ==
  CHOOSE i \in CallIds \ DOMAIN store :
    \A j \in CallIds \ DOMAIN store : i <= j

StatusOf(store, id) == getCall(store, id).status

\* Identifiers come from disjoint name spaces: a Uniqueid assigned by the PBX
\* is never the CallSid Twilio assigned to a call, and conversely.  An input
\* of one backend names a call of that backend or a call not in the store.
NamesCallOf_m(store, id, provider) == TRUE

NamesCallOf(store, id, provider) ==
  id \in DOMAIN store => store[id].provider = provider

\* what a handler keeps of the record getCall returned: the fields the
\* handlers read after their await
Snapshot(call) ==
  IF call = NoCall THEN NoCall
  ELSE [id |-> call.id, status |-> call.status, provider |-> call.provider,
        startTime |-> call.startTime, channel |-> call.channel,
        twilioCallSid |-> call.twilioCallSid]

\* The repository on its own: the calls of createCall and updateCall
StoreIds == 1 .. MaxStoreIds

NoRepoCall == [op |-> "none"]

\* the records the services create
NewCalls ==
  {Call(id, status, provider, 0, TRUE, provider = "twilio") :
     id \in StoreIds, status \in {"incoming", "outgoing"}, provider \in {"asterisk", "twilio"}}

\* the updates the services pass to updateCall, and an empty one
UpdateShapes ==
       [status : {"connected"}]
  \cup [status : {"ended"}, endTime : {Set(1)}]
  \cup [status : {"ended", "failed"}, endTime : {Set(1)}, duration : {Set(1)}]
  \cup {<<>>}

RepoCreate(call) ==
  /\ calls' = createCall(calls, call)
  /\ repoCall' = [op |-> "createCall", call |-> call, result |-> call]
  /\ UNCHANGED <<tasks, emitted, returned, isConnected, client, clock, lastAct,
                 connVars, amiVars, routed, frameVars, wireVars, orderVars>>

RepoUpdate(id, updates) ==
  /\ calls' = updateCall(calls, id, updates)
  /\ repoCall' = [op |-> "updateCall", id |-> id, updates |-> updates,
                  result |-> updateCall_returns(calls, id, updates)]
  /\ UNCHANGED <<tasks, emitted, returned, isConnected, client, clock, lastAct,
                 connVars, amiVars, routed, frameVars, wireVars, orderVars>>

----------------------------------------------------------------------------
(* Notifications *)

CallEvent(type, callId, src) == [type |-> type, callId |-> callId, src |-> src]

\* the listeners registered for 'callEvent' on the emitter of each service:
\* the controller logs the events of both, the socket service forwards to
\* the connected clients (io.emit)
\* eventEmitter.emit('callEvent', callEvent): the listeners that are called
deliveredTo(callEvent) ==
  IF callEvent.src = "asterisk" THEN {"controllerLog", "ioEmit"}
  ELSE {"controllerLog"}

----------------------------------------------------------------------------
(* Observation of the last step *)

\* op, id, arg: the step and its inputs; pre: the status the call had before
\* the step; mapped: the canonical status a webhook's status was mapped to;
\* rep: the step repeats the previous one (same op, id, arg), and then pre0 is
\* the status before the previous step and repN the number of notifications
\* the previous step emitted.
ActM(op, id, arg, mapped) ==
  LET rep == lastAct.op = op /\ lastAct.id = id /\ lastAct.arg = arg
  IN [op |-> op, id |-> id, arg |-> arg,
      pre  |-> StatusOf(calls, id),
      mapped |-> mapped,
      rep  |-> rep,
      pre0 |-> IF rep THEN lastAct.pre ELSE "none",
      repN |-> IF rep THEN Len(emitted) ELSE 0]

NoAct ==
  [op |-> "init", id |-> NoId, arg |-> "", pre |-> "none", mapped |-> "",
   rep |-> FALSE, pre0 |-> "none", repN |-> 0]

----------------------------------------------------------------------------
(* Asynchronous operations in flight *)

IdleTask ==
  [kind |-> "none", id |-> NoId, pc |-> "idle", snap |-> NoCall,
   result |-> "none", wrote |-> FALSE]

\* a microtask continuation is pending: the task is not idle and does not
\* wait on real I/O
Ready(t) ==
  tasks[t].pc \notin {"idle", "rej_ami", "hang_ami", "mk_ami", "tw_api", "twc_api"}

Quiescent == \A t \in Slots : ~Ready(t)

NewTask(kind, id, pc, snap) ==
  [kind |-> kind, id |-> id, pc |-> pc, snap |-> Snapshot(snap),
   result |-> "pending", wrote |-> FALSE]

\* of a snapshot, the fields a continuation still reads
Keep(snap, fields) == [f \in fields \cap DOMAIN snap |-> snap[f]]

\* the operation settles with result
Finish(tk, result) == [tk EXCEPT !.pc = "done", !.result = result]

\* what is observable of a settled operation: the operation, its call, its
\* result, the status it read, and whether it wrote to the repository
Outcome(tk) ==
  [kind |-> tk.kind, id |-> tk.id, result |-> tk.result,
   status |-> IF "status" \in DOMAIN tk.snap THEN tk.snap.status ELSE "unread",
   wrote |-> tk.wrote]

FreeSlots(tk) == {s \in Slots : tk[s].pc = "idle"}

LowestFree(tk) == CHOOSE s \in FreeSlots(tk) : \A r \in FreeSlots(tk) : s <= r

RECURSIVE Outcomes(_, _)
\* the outcomes of the operations of tk that settled, in slot order
Outcomes(tk, s) ==
  IF s > MaxTasks THEN <<>>
  ELSE (IF tk[s].pc = "done" THEN <<Outcome(tk[s])>> ELSE <<>>) \o Outcomes(tk, s + 1)

\* a settled operation leaves its slot
Release(tk) == [s \in Slots |-> IF tk[s].pc = "done" THEN IdleTask ELSE tk[s]]

\* the order of events is not observed
NoExpected == [calls |-> <<>>, log |-> <<[type |-> "none"]>>]

\* one continuation of task t: the task's new record, the store, the
\* notifications of this step
Commit(t, tk, store, evs) ==
  LET after == [tasks EXCEPT ![t] = tk]
  IN /\ tasks' = Release(after)
     /\ returned' = Outcomes(after, 1)
     /\ calls' = store
     /\ emitted' = evs
     /\ lastAct' = NoAct
     /\ log' = IF expected = NoExpected THEN log ELSE log \o evs
     /\ UNCHANGED <<isConnected, client, clock, connVars, amiVars, routed,
                    frameVars, wireVars, repoCall, expected>>

----------------------------------------------------------------------------
(* Twilio service *)

TwilioStatuses ==
  {"queued", "initiated", "ringing", "in-progress", "completed", "busy",
   "no-answer", "failed", "canceled", "bogus"}

\* the statuses the lookup has a case for
MappedStatuses ==
  {"queued", "ringing", "in-progress", "completed", "busy", "no-answer",
   "failed", "canceled"}

mapTwilioStatusToCallStatus_m(twilioStatus) ==
  CASE twilioStatus \in {"queued", "ringing"} -> "incoming"
    [] twilioStatus = "in-progress" -> "connected"
    [] twilioStatus \in {"completed", "busy", "no-answer", "failed", "canceled"}
         -> "ended"
    [] OTHER -> "ended"

mapTwilioStatusToCallStatus(twilioStatus) ==
  CASE twilioStatus \in {"queued", "ringing"} -> "incoming"
    [] twilioStatus = "in-progress" -> "connected"
    [] twilioStatus \in {"completed", "busy", "no-answer", "failed", "canceled"}
         -> "ended"
    [] OTHER -> "failed"

\* handleIncomingWebhook: the update is applied only on a status change
webhookStatusChanged_m(updatedStatus, existingCall) == TRUE

webhookStatusChanged(updatedStatus, existingCall) ==
  updatedStatus # existingCall.status

\* handleIncomingWebhook: the updateData built for an existing call
webhookUpdateData(CallStatus, updatedStatus, existingCall) ==
  IF CallStatus \in {"completed", "busy", "no-answer", "failed"}
  THEN [status |-> updatedStatus, endTime |-> Set(clock),
        duration |-> Set(durationBetween(clock, existingCall.startTime))]
  ELSE [status |-> updatedStatus]

\* POST /twilio/webhook/incoming and /twilio/webhook/status
handleIncomingWebhook(CallSid, CallStatus, inbound) ==
  LET callId == IF CallSid # NoId THEN CallSid ELSE generateId(calls)
      existingCall == getCall(calls, callId)
      updatedStatus == mapTwilioStatusToCallStatus(CallStatus)
      entry == IF inbound THEN "incoming" ELSE "outgoing"
  IN /\ Quiescent
     /\ CallSid = NoId => HasFresh(calls)
     /\ NamesCallOf(calls, CallSid, "twilio")
     /\ IF existingCall = NoCall /\ CallStatus \in {"ringing", "in-progress"}
        THEN /\ calls' = createCall(calls,
                           Call(callId, entry, "twilio", clock, TRUE, CallSid # NoId))
             /\ emitted' = <<CallEvent(entry, callId, "twilio")>>
        ELSE /\ ~inbound   \* Direction is read only when a record is created
             /\ IF existingCall # NoCall /\ webhookStatusChanged(updatedStatus, existingCall)
                THEN /\ calls' = updateCall(calls, callId,
                                   webhookUpdateData(CallStatus, updatedStatus, existingCall))
                     /\ emitted' = <<CallEvent(IF updatedStatus = "connected"
                                               THEN "connected" ELSE "ended",
                                               callId, "twilio")>>
                ELSE /\ calls' = calls
                     /\ emitted' = <<>>
     /\ lastAct' = IF existingCall = NoCall THEN NoAct
                   ELSE ActM("statusWebhook", callId, CallStatus, updatedStatus)
     /\ returned' = <<>>
     /\ UNCHANGED <<tasks, isConnected, client, clock, connVars, amiVars, routed, frameVars, wireVars, repoCall, orderVars>>

\* handleDialStatus: DialCallDuration as received (absent or not a number:
\* Unset) and Number.parseInt(DialCallDuration) || 0
DialDurations == {Unset, Set(1)}

parseIntOrZero(tok) == IF tok = Unset THEN 0 ELSE tok[1]

DialStatuses == {"completed", "busy", "no-answer", "failed", "answered"}

dialUpdateData(DialCallStatus, DialCallDuration) ==
  CASE DialCallStatus = "completed" ->
         [status |-> "ended", endTime |-> Set(clock),
          duration |-> Set(parseIntOrZero(DialCallDuration))]
    [] DialCallStatus \in {"busy", "no-answer"} ->
         [status |-> "ended", endTime |-> Set(clock)]
    [] OTHER -> <<>>     \* {}: no key is set

\* POST /twilio/webhook/dial-status
handleDialStatus(CallSid, DialCallStatus, DialCallDuration) ==
  LET call == getCall(calls, CallSid)
      updateData == dialUpdateData(DialCallStatus, DialCallDuration)
  IN /\ Quiescent
     /\ NamesCallOf(calls, CallSid, "twilio")
     /\ IF CallSid # NoId /\ call # NoCall /\ "status" \in DOMAIN updateData
        THEN /\ calls' = updateCall(calls, CallSid, updateData)
             /\ emitted' = <<CallEvent("ended", CallSid, "twilio")>>
             /\ lastAct' = ActM("dialStatus", CallSid, DialCallStatus, "")
        ELSE /\ DialCallDuration = Unset   \* not read on this path
             /\ calls' = calls
             /\ emitted' = <<>>
             /\ lastAct' = NoAct
     /\ returned' = <<>>
     /\ UNCHANGED <<tasks, isConnected, client, clock, connVars, amiVars, routed, frameVars, wireVars, repoCall, orderVars>>

\* endTwilioCall, after `await callRepository.getCall(callId)`
endTwilioCall_check(t) ==
  LET tk == tasks[t]
  IN /\ tk.pc = "tw_got"
     /\ IF tk.snap # NoCall /\ tk.snap.twilioCallSid
        THEN Commit(t, [tk EXCEPT !.pc = "tw_api", !.snap = Keep(tk.snap, {})],
                    calls, <<>>)
        ELSE Commit(t, Finish(tk, "ok"), calls, <<>>)

\* endTwilioCall, after `await client.calls(sid).update(...)` succeeded
endTwilioCall_update(t) ==
  LET tk == tasks[t]
  IN /\ tk.pc = "tw_resumed"
     /\ Commit(t, [tk EXCEPT !.pc = "tw_updated", !.wrote = tk.id \in DOMAIN calls],
               updateCall(calls, tk.id, [status |-> "ended", endTime |-> Set(clock)]),
               <<>>)

endTwilioCall_emit(t) ==
  LET tk == tasks[t]
  IN /\ tk.pc = "tw_updated"
     /\ Commit(t, Finish(tk, "ok"), calls,
               <<CallEvent("ended", tk.id, "twilio")>>)

\* makeOutgoingCall, after `await client.calls.create(...)` returned call.sid
makeOutgoingCall_create(t) ==
  LET tk == tasks[t]
      sid == generateId(calls)
  IN /\ tk.pc = "twc_resumed"
     /\ HasFresh(calls)
     /\ Commit(t, [tk EXCEPT !.pc = "twc_created", !.id = sid, !.wrote = TRUE],
               createCall(calls, Call(sid, "outgoing", "twilio", clock, TRUE, TRUE)),
               <<>>)

makeOutgoingCall_emit(t) ==
  LET tk == tasks[t]
  IN /\ tk.pc = "twc_created"
     /\ Commit(t, Finish(tk, "ok"), calls,
               <<CallEvent("outgoing", tk.id, "twilio")>>)

\* the Twilio REST call a task waits on returns (ok) or throws
TwilioApiResult(t, ok) ==
  LET tk == tasks[t]
  IN /\ Quiescent
     /\ tk.pc \in {"tw_api", "twc_api"}
     /\ tk.pc = "twc_api" /\ ok => HasFresh(calls)
     /\ Commit(t, IF ~ok THEN Finish(tk, "err_twilio_api")
                   ELSE [tk EXCEPT !.pc = IF tk.pc = "tw_api" THEN "tw_resumed"
                                          ELSE "twc_resumed"],
               calls, <<>>)

----------------------------------------------------------------------------
(* Asterisk service: AMI protocol client *)

maxRetries == 5

SockIds  == 1 .. MaxSockets
NoSocket == 0     \* amiSocket = null

\* the program state a synchronous stretch of code runs on and changes:
\* ok is FALSE when the bounds cannot take the stretch, rejected tells
\* whether the last sendAmiCommand rejected its promise at once
Here ==
  [calls |-> calls, tasks |-> tasks, ok |-> TRUE, rejected |-> FALSE,
   isConnected |-> isConnected, connectionAttempts |-> connectionAttempts,
   reconnectTimer |-> reconnectTimer, amiSocket |-> amiSocket,
   sockets |-> sockets, pendingActions |-> pendingActions,
   actionId |-> actionId, written |-> written,
   reconnectTimers |-> reconnectTimers,
   simulationIntervals |-> simulationIntervals,
   initialConnect |-> initialConnect, cleaned |-> cleaned]

\* the state st is what the step leaves; operations that settled leave
\* their slot
Becomes(st) ==
  /\ calls' = st.calls
  /\ tasks' = Release(st.tasks)
  /\ returned' = Outcomes(st.tasks, 1)
  /\ isConnected' = st.isConnected
  /\ connectionAttempts' = st.connectionAttempts
  /\ reconnectTimer' = st.reconnectTimer
  /\ amiSocket' = st.amiSocket
  /\ sockets' = st.sockets
  /\ pendingActions' = st.pendingActions
  /\ actionId' = st.actionId
  /\ written' = st.written
  /\ reconnectTimers' = st.reconnectTimers
  /\ simulationIntervals' = st.simulationIntervals
  /\ initialConnect' = st.initialConnect
  /\ cleaned' = st.cleaned

\* sendAmiCommand: `if (!isConnected || !amiSocket)` rejects the command
notConnected_m(connected, socket) == FALSE

notConnected(connected, socket) == ~connected \/ socket = NoSocket

\* generateActionId: `action_${++actionId}_...`, identified by the counter
generateActionId(counter) == counter + 1

\* an entry of pendingActions: the ActionID, and the caller whose promise
\* the stored resolve callback settles ("login", "events" or a task slot);
\* the 10 s timer of the command is armed as long as the entry exists
PendingAction(id, command, waiter) ==
  [id |-> id, command |-> command, waiter |-> waiter]

\* sendAmiCommand(command) called by waiter
sendAmiCommand(st, command, waiter) ==
  IF notConnected(st.isConnected, st.amiSocket)
  THEN [st EXCEPT !.rejected = TRUE]
  ELSE LET actionIdValue == generateActionId(st.actionId)
       IN [st EXCEPT
             !.rejected = FALSE,
             !.actionId = actionIdValue,
             !.pendingActions = @ \cup {PendingAction(actionIdValue, command, waiter)},
             !.written = Append(@, [Action |-> command, ActionID |-> actionIdValue,
                                    socket |-> st.amiSocket])]

\* a continuation of task t that ends in `await sendAmiCommand(command)`:
\* the task waits as tk, or goes on as onReject when the promise is
\* rejected at once
CommitSend(t, tk, command, onReject) ==
  LET st == sendAmiCommand(Here, command, t)
  IN /\ Becomes([st EXCEPT !.tasks[t] = IF st.rejected THEN onReject ELSE tk])
     /\ emitted' = <<>>
     /\ lastAct' = NoAct
     /\ UNCHANGED <<client, clock, routed, frameVars, wireVars, repoCall, orderVars>>

\* scheduleReconnect
backoffDelay(attempts) ==
  IF 1000 * (2 ^ attempts) < 30000 THEN 1000 * (2 ^ attempts) ELSE 30000

reachedMaxRetries_m(attempts) == FALSE

reachedMaxRetries(attempts) == attempts >= maxRetries

\* `if (reconnectTimer) return`
timerPending_m(handle) == FALSE

timerPending(handle) == handle # 0

scheduleReconnect(st) ==
  IF timerPending(st.reconnectTimer) THEN st
  ELSE LET attempts == st.connectionAttempts + 1
       IN IF reachedMaxRetries(attempts)
          THEN [st EXCEPT !.connectionAttempts = attempts]
          ELSE [st EXCEPT !.connectionAttempts = attempts,
                          !.reconnectTimer = backoffDelay(attempts),
                          !.reconnectTimers = @ + 1]

\* clearTimeout(reconnectTimer); reconnectTimer = null
clearReconnectTimer(st) ==
  IF st.reconnectTimer # 0
  THEN [st EXCEPT !.reconnectTimer = 0, !.reconnectTimers = @ - 1]
  ELSE st

\* the promise of the connectToAsterisk() call that created socket s is
\* rejected: the one made at construction falls back to simulation
\* (setupSimulatedEventListeners), the later ones only log
rejectConnect(st, s) ==
  IF st.initialConnect = s
  THEN [st EXCEPT !.initialConnect = 0, !.simulationIntervals = @ + 1]
  ELSE st

\* socket s is closed: its handlers run no more
socketGone(st, s) ==
  [st EXCEPT !.sockets[s] = "none",
             !.initialConnect = IF @ = s THEN 0 ELSE @]

----------------------------------------------------------------------------
(* Asterisk service: operations *)

\* acceptCall / rejectCall: `call.status !== 'incoming'` throws
acceptCall_inIncomingState_m(call) == TRUE

acceptCall_inIncomingState(call) == call.status = "incoming"

rejectCall_inIncomingState(call) == call.status = "incoming"

\* acceptCall, after `await callRepository.getCall(callId)`
acceptCall_check(t) ==
  LET tk == tasks[t]
  IN /\ tk.pc = "acc_got"
     /\ IF tk.snap = NoCall
        THEN Commit(t, Finish(tk, "err_not_found"), calls, <<>>)
        ELSE IF ~acceptCall_inIncomingState(tk.snap)
        THEN Commit(t, Finish(tk, "err_state"), calls, <<>>)
        ELSE Commit(t, [tk EXCEPT !.pc = "acc_updated", !.wrote = tk.id \in DOMAIN calls,
                                  !.snap = Keep(tk.snap, {"id", "status"})],
                    updateCall(calls, tk.id, [status |-> "connected"]),
                    <<>>)

acceptCall_emit(t) ==
  LET tk == tasks[t]
  IN /\ tk.pc = "acc_updated"
     /\ Commit(t, Finish(tk, "ok"), calls,
               <<CallEvent("connected", tk.snap.id, "asterisk")>>)

\* rejectCall: updateCall(callId, {status: 'ended', endTime})
rejectCall_write(t) ==
  LET tk == tasks[t]
  IN Commit(t, [tk EXCEPT !.pc = "rej_updated", !.wrote = tk.id \in DOMAIN calls,
                          !.snap = Keep(tk.snap, {"status"})],
            updateCall(calls, tk.id, [status |-> "ended", endTime |-> Set(clock)]),
            <<>>)

\* rejectCall, after `await callRepository.getCall(callId)`
rejectCall_check(t) ==
  LET tk == tasks[t]
  IN /\ tk.pc = "rej_got"
     /\ IF tk.snap = NoCall
        THEN Commit(t, Finish(tk, "err_not_found"), calls, <<>>)
        ELSE IF ~rejectCall_inIncomingState(tk.snap)
        THEN Commit(t, Finish(tk, "err_state"), calls, <<>>)
        ELSE IF isConnected /\ tk.snap.channel
        THEN CommitSend(t,
               [tk EXCEPT !.pc = "rej_ami", !.snap = Keep(tk.snap, {"status"})],
               "Hangup",
               [tk EXCEPT !.pc = "rej_resumed", !.snap = Keep(tk.snap, {"status"})])
        ELSE rejectCall_write(t)

\* rejectCall, after the Hangup command settled (a failure is caught and logged)
rejectCall_update(t) ==
  /\ tasks[t].pc = "rej_resumed"
  /\ rejectCall_write(t)

rejectCall_emit(t) ==
  LET tk == tasks[t]
  IN /\ tk.pc = "rej_updated"
     /\ Commit(t, Finish(tk, "ok"), calls,
               <<CallEvent("ended", tk.id, "asterisk")>>)

\* hangupCall: updateCall(callId, {status: 'ended', endTime, duration})
hangupCall_write(t) ==
  LET tk == tasks[t]
  IN Commit(t, [tk EXCEPT !.pc = "hang_updated", !.wrote = tk.id \in DOMAIN calls,
                          !.snap = Keep(tk.snap, {"status"})],
            updateCall(calls, tk.id,
                       [status |-> "ended", endTime |-> Set(clock),
                        duration |-> Set(durationBetween(clock, tk.snap.startTime))]),
            <<>>)

\* hangupCall, after `await callRepository.getCall(callId)`
hangupCall_check(t) ==
  LET tk == tasks[t]
  IN /\ tk.pc = "hang_got"
     /\ IF tk.snap = NoCall \/ ~tk.snap.channel
        THEN Commit(t, Finish(tk, "err_not_found"), calls, <<>>)
        ELSE IF isConnected
        THEN CommitSend(t,
               [tk EXCEPT !.pc = "hang_ami", !.snap = Keep(tk.snap, {"startTime"})],
               "Hangup",
               Finish(tk, "err_not_connected"))
        ELSE hangupCall_write(t)

\* hangupCall, after the Hangup command was answered
hangupCall_update(t) ==
  /\ tasks[t].pc = "hang_resumed"
  /\ hangupCall_write(t)

hangupCall_emit_m(t) ==
  LET tk == tasks[t]
  IN /\ tk.pc = "hang_updated"
     /\ Commit(t, Finish(tk, "ok"), calls, <<>>)

hangupCall_emit(t) ==
  LET tk == tasks[t]
  IN /\ tk.pc = "hang_updated"
     /\ Commit(t, Finish(tk, "ok"), calls,
               <<CallEvent("ended", tk.id, "asterisk")>>)

\* makeCall: `if (isConnected)` sends Originate; otherwise the call is
\* simulated
makeCall_useAmi_m(connected) == TRUE

makeCall_useAmi(connected) == connected

\* makeCall, after the Originate command was answered with Success
makeCall_create(t) ==
  LET tk == tasks[t]
      callId == generateId(calls)
  IN /\ tk.pc = "mk_resumed"
     /\ HasFresh(calls)
     /\ Commit(t, [tk EXCEPT !.pc = "mk_created", !.id = callId, !.wrote = TRUE],
               createCall(calls, Call(callId, "outgoing", "asterisk", clock, TRUE, FALSE)),
               <<>>)

makeCall_emit(t) ==
  LET tk == tasks[t]
  IN /\ tk.pc = "mk_created"
     /\ Commit(t, Finish(tk, "ok"), calls,
               <<CallEvent("outgoing", tk.id, "asterisk")>>)

simulateIncomingCall_emit(t) ==
  LET tk == tasks[t]
  IN /\ tk.pc = "sim_created"
     /\ Commit(t, Finish(tk, "ok"), calls,
               <<CallEvent("incoming", tk.id, "asterisk")>>)

----------------------------------------------------------------------------
(* Asterisk service: AMI events *)

\* a Uniqueid the PBX assigned to a channel the repository has no record
\* under (identifiers made by generateId() are not known to the PBX)
OtherId == NumCalls + 1

\* the fields of an event message the handlers read.  Exten: Exten and
\* CallerIDNum are both present.  about: the stored call whose channel name
\* (its backend handle) the Channel field carries, NoId if none; no handler
\* reads it.
AmiEvents ==
       [Event : {"Newchannel"}, Uniqueid : CallIds \cup {NoId},
        Channel : {TRUE}, Exten : {TRUE}, ChannelState : {""}, about : {NoId}]
  \cup [Event : {"Newchannel"}, Uniqueid : {NoId},
        Channel : {FALSE}, Exten : {FALSE}, ChannelState : {""}, about : {NoId}]
  \cup [Event : {"Hangup"}, Uniqueid : CallIds \cup {NoId},
        Channel : {FALSE}, Exten : {FALSE}, ChannelState : {""}, about : {NoId}]
  \cup [Event : {"Newstate"}, Uniqueid : CallIds \cup {NoId},
        Channel : {FALSE}, Exten : {FALSE}, ChannelState : {"6"}, about : {NoId}]
  \cup [Event : {"Newstate"}, Uniqueid : {NoId},
        Channel : {FALSE}, Exten : {FALSE}, ChannelState : {"4"}, about : {NoId}]
  \cup UNION {[Event : {"Hangup"}, Uniqueid : {c, OtherId},
               Channel : {TRUE}, Exten : {FALSE}, ChannelState : {""}, about : {c}]
              : c \in CallIds}
  \cup UNION {[Event : {"Newstate"}, Uniqueid : {c, OtherId},
               Channel : {TRUE}, Exten : {FALSE}, ChannelState : {"6"}, about : {c}]
              : c \in CallIds}

\* the Channel field of the event names the channel of a stored PBX call
AboutStoredCall(store, event) ==
  event.about # NoId =>
    /\ event.about \in DOMAIN store
    /\ store[event.about].provider = "asterisk"
    /\ store[event.about].channel

\* handleAmiEvent: the event starts a handler
eventHandled(event) ==
  CASE event.Event = "Newchannel" -> event.Exten
    [] event.Event = "Hangup" -> event.Uniqueid # NoId
    [] event.Event = "Newstate" -> event.ChannelState = "6" /\ event.Uniqueid # NoId
    [] OTHER -> FALSE

\* handleAmiEvent: the synchronous part of the handler the event starts, on
\* the program state st
handleAmiEvent(st, event) ==
  IF ~eventHandled(event) THEN st
  ELSE IF FreeSlots(st.tasks) = {} THEN [st EXCEPT !.ok = FALSE]
  ELSE LET s == LowestFree(st.tasks)
       IN CASE event.Event = "Newchannel" ->
                 IF event.Uniqueid = NoId /\ ~HasFresh(st.calls)
                 THEN [st EXCEPT !.ok = FALSE]
                 ELSE LET callId == IF event.Uniqueid # NoId THEN event.Uniqueid
                                    ELSE generateId(st.calls)
                      IN [st EXCEPT
                           !.calls = createCall(@, Call(callId, "incoming", "asterisk",
                                                        clock, event.Channel, FALSE)),
                           !.tasks[s] = [NewTask("Newchannel", callId, "inc_created", NoCall)
                                           EXCEPT !.wrote = TRUE]]
            [] event.Event = "Hangup" ->
                 [st EXCEPT !.tasks[s] = NewTask("Hangup", event.Uniqueid, "evh_got",
                                                 getCall(st.calls, event.Uniqueid))]
            [] event.Event = "Newstate" ->
                 [st EXCEPT !.tasks[s] = NewTask("Newstate", event.Uniqueid, "evc_got",
                                                 getCall(st.calls, event.Uniqueid))]

\* the caller of the command p goes on with the response message
resolved(st, p, message) ==
  CASE p.waiter = "login" ->
         \* connect handler: isConnected = true; connectionAttempts = 0;
         \* setupEventListeners()
         sendAmiCommand([st EXCEPT !.isConnected = TRUE, !.connectionAttempts = 0],
                        "Events", "events")
    [] p.waiter = "events" -> st
    [] OTHER ->
         LET tk == st.tasks[p.waiter]
         IN [st EXCEPT !.tasks[p.waiter] =
               CASE tk.pc = "rej_ami" -> [tk EXCEPT !.pc = "rej_resumed"]
                 [] tk.pc = "hang_ami" -> [tk EXCEPT !.pc = "hang_resumed"]
                 [] tk.pc = "mk_ami" ->
                      IF message.Response = "Success"
                      THEN [tk EXCEPT !.pc = "mk_resumed"]
                      ELSE Finish(tk, "err_originate")
                 [] OTHER -> tk]

\* the caller of the command p goes on with the timeout error
timedOut(st, p) ==
  CASE p.waiter = "login" -> [st EXCEPT !.isConnected = FALSE]
    [] p.waiter = "events" -> st
    [] OTHER ->
         LET tk == st.tasks[p.waiter]
         IN [st EXCEPT !.tasks[p.waiter] =
               IF tk.pc = "rej_ami" THEN [tk EXCEPT !.pc = "rej_resumed"]
               ELSE Finish(tk, "err_timeout")]

\* a message without an Event field
NoEvent ==
  [Event |-> "", Uniqueid |-> NoId, Channel |-> FALSE, Exten |-> FALSE,
   ChannelState |-> "", about |-> NoId]

\* parsed AMI messages: events, and responses carrying an ActionID
AmiMessages ==
       {[ev |-> e, ActionID |-> 0, Response |-> ""] : e \in AmiEvents}
  \cup [ev : {NoEvent}, ActionID : 1 .. MaxActionId, Response : {"Success", "Error"}]

handleAmiMessage(st, message) ==
  IF message.ActionID # 0 /\ \E p \in st.pendingActions : p.id = message.ActionID
  THEN LET p == CHOOSE q \in st.pendingActions : q.id = message.ActionID
       IN resolved([st EXCEPT !.pendingActions = @ \ {p}], p, message)
  ELSE IF message.ev.Event # "" THEN handleAmiEvent(st, message.ev)
  ELSE st

\* handleCallHangup: `if (call)`, on the record getCall returned
hangupApplies(call) == call # NoCall

\* handleCallConnected: `if (call && call.status !== 'connected')`
connectedApplies(call) == call # NoCall /\ call.status # "connected"

\* the handler of an event run to completion (its awaits included) on the
\* store acc.calls, its notification appended to acc.log
handledAlone(acc, event) ==
  CASE ~eventHandled(event) -> acc
    [] event.Event = "Newchannel" ->
         LET callId == IF event.Uniqueid # NoId THEN event.Uniqueid
                       ELSE generateId(acc.calls)
         IN [calls |-> createCall(acc.calls, Call(callId, "incoming", "asterisk",
                                                  clock, event.Channel, FALSE)),
             log |-> Append(acc.log, CallEvent("incoming", callId, "asterisk"))]
    [] event.Event = "Hangup" ->
         LET call == getCall(acc.calls, event.Uniqueid)
         IN IF hangupApplies(call)
            THEN [calls |-> updateCall(acc.calls, event.Uniqueid,
                              [status |-> "ended", endTime |-> Set(clock),
                               duration |-> Set(durationBetween(clock, call.startTime))]),
                  log |-> Append(acc.log, CallEvent("ended", event.Uniqueid, "asterisk"))]
            ELSE acc
    [] event.Event = "Newstate" ->
         LET call == getCall(acc.calls, event.Uniqueid)
         IN IF connectedApplies(call)
            THEN [calls |-> updateCall(acc.calls, event.Uniqueid, [status |-> "connected"]),
                  log |-> Append(acc.log, CallEvent("connected", event.Uniqueid, "asterisk"))]
            ELSE acc

RECURSIVE oneByOne(_, _, _)
\* the messages of a chunk handled one after the other, each to completion
oneByOne(acc, chunk, i) ==
  IF i > Len(chunk) THEN acc
  ELSE oneByOne(IF chunk[i].ev.Event # "" THEN handledAlone(acc, chunk[i].ev) ELSE acc,
                chunk, i + 1)

RECURSIVE dataLoop(_, _, _)
\* socket 'data' handler: every complete message of the chunk, in order
dataLoop(st, chunk, i) ==
  IF i > Len(chunk) THEN st
  ELSE dataLoop(handleAmiMessage(st, chunk[i]), chunk, i + 1)

Chunks == UNION {[1 .. n -> AmiMessages] : n \in 1 .. MaxChunk}

\* a data chunk holding complete messages arrives on socket s
AmiData(s, chunk) ==
  LET st == dataLoop(Here, chunk, 1)
  IN /\ Quiescent
     /\ sockets[s] = "open"
     /\ \A i \in 1 .. Len(chunk) : NamesCallOf(calls, chunk[i].ev.Uniqueid, "asterisk")
     /\ \A i \in 1 .. Len(chunk) : AboutStoredCall(calls, chunk[i].ev)
     /\ st.ok
     /\ Becomes(st)
     /\ emitted' = <<>>
     /\ lastAct' = IF Len(chunk) = 1 /\ chunk[1].ev.about # NoId
                   THEN [NoAct EXCEPT !.op = "amiEvent", !.id = chunk[1].ev.about,
                                      !.arg = chunk[1].ev.Event,
                                      !.pre = StatusOf(calls, chunk[1].ev.about)]
                   ELSE NoAct
     /\ expected' = IF expected = NoExpected THEN expected
                    ELSE oneByOne([calls |-> calls, log |-> <<>>], chunk, 1)
     /\ log' = <<>>
     /\ UNCHANGED <<client, clock, routed, frameVars, wireVars, repoCall>>

\* the 10 s timer of the pending command id fires
AmiTimeout(id) ==
  /\ Quiescent
  /\ \E p \in pendingActions : p.id = id
  /\ LET p == CHOOSE q \in pendingActions : q.id = id
     IN Becomes(timedOut([Here EXCEPT !.pendingActions = @ \ {p}], p))
  /\ emitted' = <<>>
  /\ lastAct' = NoAct
  /\ UNCHANGED <<client, clock, routed, frameVars, wireVars, repoCall, orderVars>>

----------------------------------------------------------------------------
(* Asterisk service: text of an outbound command *)

\* the commands the service passes to sendAmiCommand (Login, Events,
\* Originate, Hangup), their parameters as key/value pairs in the order of
\* Object.entries
Param(key, value) == [key |-> key, value |-> value]

Commands ==
  {[command |-> "Login",
    params |-> <<Param("Username", "admin"), Param("Secret", "secret")>>],
   [command |-> "Events",
    params |-> <<Param("EventMask", "call,system")>>],
   [command |-> "Originate",
    params |-> <<Param("Channel", "SIP/1001"), Param("Context", "default"),
                 Param("Exten", "2000"), Param("Priority", "1"),
                 Param("CallerID", "1001"), Param("Timeout", "30000"),
                 Param("ActionID", "callId")>>],
   [command |-> "Hangup",
    params |-> <<Param("Channel", "SIP/1001-1")>>]}

WireInputs ==
  {[command |-> c.command, params |-> c.params, counter |-> n] :
     c \in Commands, n \in 0 .. MaxCounter}

NoWireInput == [command |-> "", params |-> <<>>, counter |-> 0]

\* `${key}: ${value}\r\n`
wireLine(key, value) == <<key, ": ", value, "\r\n">>

RECURSIVE wireParams(_)
\* for (const [key, value] of Object.entries(params)) message += ...
wireParams(params) ==
  IF params = <<>> THEN <<>>
  ELSE wireLine(params[1].key, params[1].value) \o wireParams(Tail(params))

\* sendAmiCommand: the message text, as the pieces it is concatenated from
wireMessage_m(command, actionIdValue, params) ==
  wireLine("Action", command) \o wireParams(params)
    \o wireLine("ActionID", actionIdValue) \o <<"\r\n">>

wireMessage(command, actionIdValue, params) ==
  wireLine("Action", command) \o wireLine("ActionID", actionIdValue)
    \o wireParams(params) \o <<"\r\n">>

\* sendAmiCommand builds the message of the command wireIn
BuildMessage ==
  /\ wireIn # NoWireInput
  /\ wireOut = <<>>
  /\ wireOut' = wireMessage(wireIn.command, generateActionId(wireIn.counter),
                            wireIn.params)
  /\ UNCHANGED <<wireIn, calls, tasks, emitted, returned, isConnected, client,
                 clock, lastAct, connVars, amiVars, routed, frameVars, repoCall, orderVars>>

----------------------------------------------------------------------------
(* Asterisk service: framing of the inbound stream *)

\* Bytes: "a" an ASCII letter, ":" the colon, "r" CR, "n" LF, and "H" "T"
\* the two bytes of one UTF-8 character.  Characters: "a", ":", "r", "n",
\* "e" (the two-byte character) and "?" (U+FFFD).
Units == {<<"a">>, <<":">>, <<"r", "n">>, <<"H", "T">>}

RECURSIVE StreamsOf(_)
\* the byte streams of n units
StreamsOf(n) ==
  IF n = 0 THEN {<<>>}
  ELSE {u \o rest : u \in Units, rest \in StreamsOf(n - 1)}

\* what the PBX sends: well-formed UTF-8 text
Streams == UNION {StreamsOf(n) : n \in 0 .. MaxUnits}

Tail2(seq, n) == SubSeq(seq, n + 1, Len(seq))     \* seq.substring(n)

RECURSIVE toString(_)
\* data.toString(): UTF-8 decoding of one chunk; a byte that is not part of
\* a complete character within the chunk decodes to U+FFFD
toString(data) ==
  IF data = <<>> THEN <<>>
  ELSE IF data[1] = "H"
       THEN IF Len(data) >= 2 /\ data[2] = "T"
            THEN <<"e">> \o toString(Tail2(data, 2))
            ELSE <<"?">> \o toString(Tail(data))
       ELSE IF data[1] = "T" THEN <<"?">> \o toString(Tail(data))
       ELSE <<data[1]>> \o toString(Tail(data))

\* str.indexOf(pattern), counted from 1; 0 when absent
indexOf(str, pattern) ==
  LET at == {i \in 1 .. Len(str) - Len(pattern) + 1 :
               SubSeq(str, i, i + Len(pattern) - 1) = pattern}
  IN IF at = {} THEN 0 ELSE CHOOSE i \in at : \A j \in at : i <= j

Whitespace == {"r", "n"}

RECURSIVE trimStart(_)
trimStart(str) ==
  IF str # <<>> /\ str[1] \in Whitespace THEN trimStart(Tail(str)) ELSE str

RECURSIVE trimEnd(_)
trimEnd(str) ==
  IF str # <<>> /\ str[Len(str)] \in Whitespace
  THEN trimEnd(SubSeq(str, 1, Len(str) - 1)) ELSE str

trim(str) == trimEnd(trimStart(str))

RECURSIVE split(_, _)
\* str.split(separator)
split(str, separator) ==
  LET i == indexOf(str, separator)
  IN IF i = 0 THEN <<str>>
     ELSE <<SubSeq(str, 1, i - 1)>> \o split(Tail2(str, i - 1 + Len(separator)), separator)

RECURSIVE parseLines(_, _)
\* parseAmiMessage: the loop over the lines
parseLines(lines, result) ==
  IF lines = <<>> THEN result
  ELSE LET line == lines[1]
           colonIndex == indexOf(line, <<":">>)
           key == trim(SubSeq(line, 1, colonIndex - 1))
           value == trim(Tail2(line, colonIndex))
       IN parseLines(Tail(lines),
            IF colonIndex > 1     \* `colonIndex > 0`, counted from 0
            THEN [k \in DOMAIN result \cup {key} |->
                    IF k = key THEN value ELSE result[k]]
            ELSE result)

parseAmiMessage(data) == parseLines(split(trim(data), <<"r", "n">>), <<>>)

RECURSIVE frameLoop(_, _)
\* socket 'data' handler: the while loop; buf is the buffer and out the
\* messages dispatched so far
frameLoop(buf, out) ==
  LET messageEnd == indexOf(buf, <<"r", "n", "r", "n">>)
  IN IF messageEnd = 0 THEN [buffer |-> buf, dispatched |-> out]
     ELSE frameLoop(Tail2(buf, messageEnd - 1 + 4),
                    Append(out, parseAmiMessage(SubSeq(buf, 1, messageEnd - 1))))

\* socket 'data' handler, for a chunk of the next k bytes of the stream
SocketData(k) ==
  LET data == SubSeq(stream, received + 1, received + k)
      after == frameLoop(buffer \o toString(data), dispatched)
  IN /\ received + k <= Len(stream)
     /\ received' = received + k
     /\ buffer' = after.buffer
     /\ dispatched' = after.dispatched
     /\ UNCHANGED <<stream, calls, tasks, emitted, returned, isConnected, client,
                    clock, lastAct, connVars, amiVars, routed, wireVars, repoCall, orderVars>>

handleIncomingCall_emit(t) ==
  LET tk == tasks[t]
  IN /\ tk.pc = "inc_created"
     /\ Commit(t, Finish(tk, "ok"), calls,
               <<CallEvent("incoming", tk.id, "asterisk")>>)

\* handleCallHangup, after `await callRepository.getCall(callId)`
handleCallHangup_update(t) ==
  LET tk == tasks[t]
  IN /\ tk.pc = "evh_got"
     /\ IF hangupApplies(tk.snap)
        THEN Commit(t, [tk EXCEPT !.pc = "evh_updated", !.wrote = tk.id \in DOMAIN calls,
                                  !.snap = Keep(tk.snap, {"status"})],
                    updateCall(calls, tk.id,
                               [status |-> "ended", endTime |-> Set(clock),
                                duration |-> Set(durationBetween(clock, tk.snap.startTime))]),
                    <<>>)
        ELSE Commit(t, Finish(tk, "ignored"), calls, <<>>)

handleCallHangup_emit(t) ==
  LET tk == tasks[t]
  IN /\ tk.pc = "evh_updated"
     /\ Commit(t, Finish(tk, "ok"), calls,
               <<CallEvent("ended", tk.id, "asterisk")>>)

\* handleCallConnected, after `await callRepository.getCall(callId)`
handleCallConnected_update(t) ==
  LET tk == tasks[t]
  IN /\ tk.pc = "evc_got"
     /\ IF connectedApplies(tk.snap)
        THEN Commit(t, [tk EXCEPT !.pc = "evc_updated", !.wrote = tk.id \in DOMAIN calls,
                                  !.snap = Keep(tk.snap, {"status"})],
                    updateCall(calls, tk.id, [status |-> "connected"]),
                    <<>>)
        ELSE Commit(t, Finish(tk, "ignored"), calls, <<>>)

handleCallConnected_emit(t) ==
  LET tk == tasks[t]
  IN /\ tk.pc = "evc_updated"
     /\ Commit(t, Finish(tk, "ok"), calls,
               <<CallEvent("connected", tk.id, "asterisk")>>)

----------------------------------------------------------------------------
(* Asterisk service: connection *)

\* observation of a connection step
ConnAct(op, arg) == [NoAct EXCEPT !.op = op, !.arg = arg]

\* connectToAsterisk: amiSocket = new net.Socket(); ...; amiSocket.connect()
connectToAsterisk(st) ==
  IF \A s \in SockIds : st.sockets[s] # "none" THEN [st EXCEPT !.ok = FALSE]
  ELSE LET s == CHOOSE r \in SockIds :
                  /\ st.sockets[r] = "none"
                  /\ \A q \in SockIds : st.sockets[q] = "none" => r <= q
       IN [st EXCEPT !.sockets[s] = "connecting", !.amiSocket = s]

\* socket 'connect' handler: Login, and what follows its await
SocketConnect(s) ==
  LET st == sendAmiCommand([Here EXCEPT !.sockets[s] = "open"], "Login", "login")
  IN /\ Quiescent
     /\ sockets[s] = "connecting"
     /\ Becomes(IF st.rejected
                THEN rejectConnect([st EXCEPT !.isConnected = FALSE], s)
                ELSE st)
     /\ lastAct' = ConnAct("connect", IF st.rejected THEN "login_rejected"
                                      ELSE "login_sent")
     /\ emitted' = <<>>
     /\ UNCHANGED <<client, clock, routed, frameVars, wireVars, repoCall, orderVars>>

\* socket 'error' handler, and the 'close' handler that net.Socket calls
\* directly after it
SocketError(s) ==
  LET rejected == IF connectionAttempts = 0 THEN rejectConnect(Here, s) ELSE Here
      afterError == scheduleReconnect([rejected EXCEPT !.isConnected = FALSE])
      afterClose == scheduleReconnect([afterError EXCEPT !.isConnected = FALSE])
  IN /\ Quiescent
     /\ sockets[s] \in {"connecting", "open"}
     /\ Becomes(socketGone(afterClose, s))
     /\ lastAct' = ConnAct("socketError", IF reconnectTimer # 0 THEN "timer_pending" ELSE "")
     /\ emitted' = <<>>
     /\ UNCHANGED <<client, clock, routed, frameVars, wireVars, repoCall, orderVars>>

\* socket 'close' handler (the peer closed the connection)
SocketClose(s) ==
  LET afterClose == scheduleReconnect([Here EXCEPT !.isConnected = FALSE])
  IN /\ Quiescent
     /\ sockets[s] = "open"
     /\ Becomes(socketGone(afterClose, s))
     /\ lastAct' = ConnAct("socketClose", IF reconnectTimer # 0 THEN "timer_pending" ELSE "")
     /\ emitted' = <<>>
     /\ UNCHANGED <<client, clock, routed, frameVars, wireVars, repoCall, orderVars>>

\* scheduleReconnect: the reconnect timer fires
ReconnectTimer ==
  LET st == connectToAsterisk([Here EXCEPT !.reconnectTimer = 0,
                                           !.reconnectTimers = @ - 1])
  IN /\ Quiescent
     /\ reconnectTimers > 0
     /\ st.ok
     /\ Becomes(st)
     /\ lastAct' = ConnAct("reconnectTimer", "")
     /\ emitted' = <<>>
     /\ UNCHANGED <<client, clock, routed, frameVars, wireVars, repoCall, orderVars>>

\* reconnect()
reconnect_m ==
  LET st == connectToAsterisk([clearReconnectTimer(Here) EXCEPT !.cleaned = FALSE])
  IN /\ Quiescent
     /\ st.ok
     /\ Becomes(st)
     /\ lastAct' = ConnAct("reconnect", IF reconnectTimer # 0 THEN "timer_cleared"
                                        ELSE "")
     /\ emitted' = <<>>
     /\ UNCHANGED <<client, clock, routed, frameVars, wireVars, repoCall, orderVars>>

reconnect ==
  LET st == connectToAsterisk([clearReconnectTimer(Here) EXCEPT
                                 !.connectionAttempts = 0, !.cleaned = FALSE])
  IN /\ Quiescent
     /\ st.ok
     /\ Becomes(st)
     /\ lastAct' = ConnAct("reconnect", IF reconnectTimer # 0 THEN "timer_cleared"
                                        ELSE "")
     /\ emitted' = <<>>
     /\ UNCHANGED <<client, clock, routed, frameVars, wireVars, repoCall, orderVars>>

----------------------------------------------------------------------------
(* Unified call service *)

\* API operations (HTTP routes and socket.io client events).  makeCall and
\* makeOutgoingCall are initiateCall after determineProvider chose the backend.
ApiRequests ==
       [kind : {"accept", "reject", "end"}, id : CallIds]
  \cup [kind : {"makeCall", "makeOutgoingCall", "simulateIncomingCall"}, id : {NoId}]

\* the synchronous part of an API operation, up to its first await, on
\* the program state st
startApi(st, req) ==
  IF FreeSlots(st.tasks) = {} THEN [st EXCEPT !.ok = FALSE]
  ELSE LET s == LowestFree(st.tasks)
       IN CASE req.kind \in {"accept", "reject", "end"} ->
                 [st EXCEPT !.tasks[s] = NewTask(req.kind, req.id, "cs_got",
                                                 getCall(st.calls, req.id))]
            [] req.kind = "makeCall" ->
                 IF makeCall_useAmi(st.isConnected)
                 THEN LET r == sendAmiCommand(st, "Originate", s)
                      IN [r EXCEPT !.tasks[s] =
                            IF r.rejected
                            THEN Finish(NewTask("makeCall", NoId, "mk_ami", NoCall),
                                        "err_not_connected")
                            ELSE NewTask("makeCall", NoId, "mk_ami", NoCall)]
                 ELSE IF ~HasFresh(st.calls) THEN [st EXCEPT !.ok = FALSE]
                 ELSE LET callId == generateId(st.calls)
                      IN [st EXCEPT
                           !.calls = createCall(@, Call(callId, "outgoing", "asterisk",
                                                        clock, TRUE, FALSE)),
                           !.tasks[s] = [NewTask("makeCall", callId, "mk_created", NoCall)
                                           EXCEPT !.wrote = TRUE]]
            [] req.kind = "makeOutgoingCall" ->
                 IF ~client
                 THEN [st EXCEPT !.tasks[s] =
                         Finish(NewTask("makeOutgoingCall", NoId, "twc_api", NoCall),
                                "err_no_client")]
                 ELSE [st EXCEPT !.tasks[s] =
                         NewTask("makeOutgoingCall", NoId, "twc_api", NoCall)]
            [] req.kind = "simulateIncomingCall" ->
                 IF ~HasFresh(st.calls) THEN [st EXCEPT !.ok = FALSE]
                 ELSE LET callId == generateId(st.calls)
                      IN [st EXCEPT
                           !.calls = createCall(@, Call(callId, "incoming", "asterisk",
                                                        clock, TRUE, FALSE)),
                           !.tasks[s] = [NewTask("simulateIncomingCall", callId,
                                                 "sim_created", NoCall)
                                           EXCEPT !.wrote = TRUE]]

RECURSIVE startAll(_, _, _)
startAll(st, reqs, i) ==
  IF i > Len(reqs) THEN st
  ELSE startAll(startApi(st, reqs[i]), reqs, i + 1)

Batches == UNION {[1 .. n -> ApiRequests] : n \in 1 .. MaxBatch}

\* one stimulus starts the API operations reqs, in order
StartApi(reqs) ==
  LET st == startAll(Here, reqs, 1)
  IN /\ Quiescent
     /\ st.ok
     /\ Becomes(st)
     /\ emitted' = <<>>
     /\ lastAct' = NoAct
     /\ UNCHANGED <<client, clock, routed, frameVars, wireVars, repoCall, orderVars>>

\* initiateCall requests: the destination is a string of at most MaxToLen
\* characters, digits with or without a leading '+'; the provider is absent
\* (""), one of the two backends, or another name
digits(n) == [i \in 1 .. n |-> "5"]

Destinations ==
       {digits(n) : n \in 0 .. MaxToLen}
  \cup {<<"+">> \o digits(n - 1) : n \in 1 .. MaxToLen}

CallRequests == [to : Destinations, provider : {"", "asterisk", "twilio", "sip"}]

NoRoute == [request |-> [to |-> <<>>, provider |-> ""], selectedProvider |-> "none"]

\* request.to.startsWith('+')
startsWithPlus(to) == Len(to) > 0 /\ to[1] = "+"

\* request.to.length > 6
longerThanExtension_m(to) == Len(to) >= 6

longerThanExtension(to) == Len(to) > 6

determineProvider(request) ==
  IF request.provider # "" THEN request.provider
  ELSE IF startsWithPlus(request.to) \/ longerThanExtension(request.to) THEN "twilio"
  ELSE "asterisk"

\* initiateCall(from, to, provider), up to the first await of the backend's
\* function
initiateCall(request) ==
  LET selectedProvider == determineProvider(request)
      st == startApi(Here, [kind |-> IF selectedProvider = "twilio"
                                     THEN "makeOutgoingCall" ELSE "makeCall",
                            id |-> NoId])
  IN /\ Quiescent
     /\ st.ok
     /\ Becomes(st)
     /\ routed' = [request |-> request, selectedProvider |-> selectedProvider]
     /\ emitted' = <<>>
     /\ lastAct' = NoAct
     /\ UNCHANGED <<client, clock, frameVars, wireVars, repoCall, orderVars>>

\* acceptCall / rejectCall / endCall of the call service, after
\* `await callRepository.getCall(callId)`: dispatch on the call's provider
CallService_dispatch(t) ==
  LET tk == tasks[t]
      again == Snapshot(getCall(calls, tk.id))   \* the provider function's own getCall
  IN /\ tk.pc = "cs_got"
     /\ IF tk.snap = NoCall
        THEN Commit(t, Finish(tk, "err_not_found"), calls, <<>>)
        ELSE IF tk.snap.provider = "asterisk"
        THEN Commit(t, [tk EXCEPT !.snap = again,
                                  !.pc = CASE tk.kind = "accept" -> "acc_got"
                                           [] tk.kind = "reject" -> "rej_got"
                                           [] tk.kind = "end" -> "hang_got"],
                    calls, <<>>)
        ELSE IF tk.kind = "accept"
        THEN Commit(t, Finish(tk, "err_twilio_auto"), calls, <<>>)
        ELSE IF ~client
        THEN Commit(t, Finish(tk, "err_no_client"), calls, <<>>)
        ELSE Commit(t, [tk EXCEPT !.snap = again, !.pc = "tw_got"],
                    calls, <<>>)

----------------------------------------------------------------------------
(* Asterisk service: shutdown and simulation *)

\* cleanup(): the timer and the intervals are cleared, the socket amiSocket
\* refers to is destroyed (its 'close' event is delivered later, to the
\* handlers that are still attached), the pending commands are forgotten
cleanup ==
  LET cleared == clearReconnectTimer(Here)
      live == amiSocket # NoSocket /\ sockets[amiSocket] \in {"connecting", "open"}
  IN /\ Quiescent
     /\ Becomes([cleared EXCEPT
                   !.simulationIntervals = 0,
                   !.sockets = IF live THEN [@ EXCEPT ![amiSocket] = "destroyed"] ELSE @,
                   !.amiSocket = NoSocket,
                   !.pendingActions = {},
                   !.isConnected = FALSE,
                   !.cleaned = TRUE])
     /\ lastAct' = ConnAct("cleanup", IF live THEN "destroyed" ELSE "")
     /\ emitted' = <<>>
     /\ UNCHANGED <<client, clock, routed, frameVars, wireVars, repoCall, orderVars>>

\* socket 'close' handler, for a socket that was destroyed
SocketDestroyed(s) ==
  LET afterClose == scheduleReconnect([Here EXCEPT !.isConnected = FALSE])
  IN /\ Quiescent
     /\ sockets[s] = "destroyed"
     /\ Becomes(socketGone(afterClose, s))
     /\ lastAct' = ConnAct("socketClose", "destroyed")
     /\ emitted' = <<>>
     /\ UNCHANGED <<client, clock, routed, frameVars, wireVars, repoCall, orderVars>>

\* setupSimulatedEventListeners: `Math.random() < 0.1 && !isConnected`
simulationFires(random, connected) == random /\ ~connected

\* an interval of setupSimulatedEventListeners fires; random tells whether
\* Math.random() < 0.1
SimulationTick(random) ==
  LET fires == simulationFires(random, isConnected)
      st == IF fires
            THEN startApi(Here, [kind |-> "simulateIncomingCall", id |-> NoId])
            ELSE Here
  IN /\ Quiescent
     /\ simulationIntervals > 0
     /\ st.ok
     /\ Becomes(st)
     /\ lastAct' = ConnAct("simulationTick", IF fires THEN "call" ELSE "")
     /\ emitted' = <<>>
     /\ UNCHANGED <<client, clock, routed, frameVars, wireVars, repoCall, orderVars>>

----------------------------------------------------------------------------
(* Specification *)

\* the service right after construction
InitService ==
  /\ calls = <<>>
  /\ tasks = [s \in Slots |-> IdleTask]
  /\ emitted = <<>>
  /\ returned = <<>>
  /\ isConnected = FALSE
  /\ client \in BOOLEAN
  /\ clock = 0
  /\ lastAct = NoAct
  /\ connectionAttempts = 0
  /\ reconnectTimer = 0
  /\ sockets = [s \in SockIds |-> IF s = 1 THEN "connecting" ELSE "none"]
  /\ reconnectTimers = 0
  /\ simulationIntervals = 0
  /\ initialConnect = 1
  /\ cleaned = FALSE
  /\ amiSocket = 1
  /\ pendingActions = {}
  /\ actionId = 0
  /\ written = <<>>
  /\ routed = NoRoute
  /\ received = 0
  /\ buffer = <<>>
  /\ dispatched = <<>>
  /\ wireOut = <<>>
  /\ repoCall = NoRepoCall
  /\ log = <<>>

Init ==
  /\ InitService
  /\ stream = <<>>
  /\ wireIn = NoWireInput
  /\ expected = NoExpected

\* The call lifecycle.  No handler reaches a registered AMI command (see
\* NoCommandOutstanding), so the continuations that follow an AMI response
\* or timeout (AmiTimeout, rejectCall_update, hangupCall_update,
\* makeCall_create) are never enabled and are not listed.
Next ==
  \/ \E reqs \in Batches : StartApi(reqs)
  \/ \E t \in Slots : CallService_dispatch(t)
  \/ \E t \in Slots : acceptCall_check(t)
  \/ \E t \in Slots : acceptCall_emit(t)
  \/ \E t \in Slots : rejectCall_check(t)
  \/ \E t \in Slots : rejectCall_emit(t)
  \/ \E t \in Slots : hangupCall_check(t)
  \/ \E t \in Slots : hangupCall_emit(t)
  \/ \E t \in Slots : makeCall_emit(t)
  \/ \E t \in Slots : simulateIncomingCall_emit(t)
  \/ \E t \in Slots : endTwilioCall_check(t)
  \/ \E t \in Slots : endTwilioCall_update(t)
  \/ \E t \in Slots : endTwilioCall_emit(t)
  \/ \E t \in Slots : makeOutgoingCall_create(t)
  \/ \E t \in Slots : makeOutgoingCall_emit(t)
  \/ \E t \in Slots, ok \in BOOLEAN : TwilioApiResult(t, ok)
  \/ \E s \in SockIds, chunk \in Chunks : AmiData(s, chunk)
  \/ \E t \in Slots : handleIncomingCall_emit(t)
  \/ \E t \in Slots : handleCallHangup_update(t)
  \/ \E t \in Slots : handleCallHangup_emit(t)
  \/ \E t \in Slots : handleCallConnected_update(t)
  \/ \E t \in Slots : handleCallConnected_emit(t)
  \/ \E sid \in CallIds, st \in TwilioStatuses, inbound \in BOOLEAN :
        handleIncomingWebhook(sid, st, inbound)
  \/ \E sid \in CallIds \cup {NoId}, st \in DialStatuses, d \in DialDurations :
        handleDialStatus(sid, st, d)
  \/ \E s \in SockIds : SocketConnect(s)

Spec == Init /\ [][Next]_vars

\* The AMI connection: connect, login, failures, backoff and reconnect
NextConn ==
  \/ \E s \in SockIds : SocketConnect(s)
  \/ \E s \in SockIds : SocketError(s)
  \/ \E s \in SockIds : SocketClose(s)
  \/ ReconnectTimer
  \/ reconnect

SpecConn == Init /\ [][NextConn]_vars

\* The life of the AMI client: the connection, the fallback to simulation
\* and cleanup()
NextLife ==
  \/ \E s \in SockIds : SocketConnect(s)
  \/ \E s \in SockIds : SocketError(s)
  \/ \E s \in SockIds : SocketClose(s)
  \/ \E s \in SockIds : SocketDestroyed(s)
  \/ ReconnectTimer
  \/ reconnect
  \/ cleanup
  \/ \E random \in BOOLEAN : SimulationTick(random)
  \/ \E t \in Slots : simulateIncomingCall_emit(t)

SpecLife == Init /\ [][NextLife]_vars

\* The continuations of the event handlers wait on settled promises, and
\* the microtask queue is first in, first out: of the pending continuations
\* the one to run is the first continuation of a handler before the second
\* of any, and the handler started first before the others
round(pc) == IF pc \in {"inc_created", "evh_got", "evc_got"} THEN 1 ELSE 2

Turn(t) ==
  /\ Ready(t)
  /\ \A u \in Slots :
       Ready(u) =>
         \/ round(tasks[t].pc) < round(tasks[u].pc)
         \/ round(tasks[t].pc) = round(tasks[u].pc) /\ t <= u

\* AMI events and their handlers, with the order of events observed
InitEvents ==
  /\ InitService
  /\ stream = <<>>
  /\ wireIn = NoWireInput
  /\ expected = [calls |-> <<>>, log |-> <<>>]

NextEvents ==
  \/ \E s \in SockIds : SocketConnect(s)
  \/ \E s \in SockIds, chunk \in Chunks : AmiData(s, chunk)
  \/ \E t \in Slots : Turn(t) /\ handleIncomingCall_emit(t)
  \/ \E t \in Slots : Turn(t) /\ handleCallHangup_update(t)
  \/ \E t \in Slots : Turn(t) /\ handleCallHangup_emit(t)
  \/ \E t \in Slots : Turn(t) /\ handleCallConnected_update(t)
  \/ \E t \in Slots : Turn(t) /\ handleCallConnected_emit(t)

SpecEvents == InitEvents /\ [][NextEvents]_vars

\* The wall clock: the milliseconds it may show.  It is the system time,
\* which an adjustment may set back as well as forward
Clock == {sec * MsPerSecond + ms : sec \in 0 .. MaxClock, ms \in {0, MsPerSecond - 1}}

\* the system time becomes now
Tick(now) ==
  /\ now # clock
  /\ clock' = now
  /\ UNCHANGED <<calls, tasks, emitted, returned, isConnected, client, lastAct,
                 connVars, amiVars, routed, frameVars, wireVars, repoCall, orderVars>>

\* Calls that begin and end while the clock moves
NextClock ==
  \/ \E now \in Clock : Tick(now)
  \/ StartApi(<<[kind |-> "simulateIncomingCall", id |-> NoId]>>)
  \/ \E id \in CallIds : StartApi(<<[kind |-> "end", id |-> id]>>)
  \/ \E t \in Slots : CallService_dispatch(t)
  \/ \E t \in Slots : hangupCall_check(t)
  \/ \E t \in Slots : hangupCall_emit(t)
  \/ \E t \in Slots : simulateIncomingCall_emit(t)
  \/ \E s \in SockIds : SocketConnect(s)
  \/ \E s \in SockIds, message \in AmiMessages : AmiData(s, <<message>>)
  \/ \E t \in Slots : handleIncomingCall_emit(t)
  \/ \E t \in Slots : handleCallHangup_update(t)
  \/ \E t \in Slots : handleCallHangup_emit(t)
  \/ \E t \in Slots : handleCallConnected_update(t)
  \/ \E t \in Slots : handleCallConnected_emit(t)
  \/ \E sid \in CallIds, st \in TwilioStatuses, inbound \in BOOLEAN :
        handleIncomingWebhook(sid, st, inbound)
  \/ \E sid \in CallIds \cup {NoId}, st \in DialStatuses, d \in DialDurations \cup {Set(-1)} :
        handleDialStatus(sid, st, d)

SpecClock == Init /\ [][NextClock]_vars

\* Call initiation through the router
NextRoute ==
  \/ \E request \in CallRequests : initiateCall(request)
  \/ \E t \in Slots : makeCall_emit(t)
  \/ \E t \in Slots : makeOutgoingCall_create(t)
  \/ \E t \in Slots : makeOutgoingCall_emit(t)
  \/ \E t \in Slots, ok \in BOOLEAN : TwilioApiResult(t, ok)

SpecRoute == Init /\ [][NextRoute]_vars

\* Framing: the PBX sends a stream, delivered in chunks of any sizes
InitFrame ==
  /\ InitService
  /\ stream \in Streams
  /\ wireIn = NoWireInput
  /\ expected = NoExpected

NextFrame == \E k \in 1 .. 2 * MaxUnits : SocketData(k)

SpecFrame == InitFrame /\ [][NextFrame]_vars

\* The message builder of sendAmiCommand, applied to a command
InitWire ==
  /\ InitService
  /\ stream = <<>>
  /\ wireIn \in WireInputs
  /\ expected = NoExpected

NextWire == BuildMessage

SpecWire == InitWire /\ [][NextWire]_vars

\* The repository on its own
NextStore ==
  \/ \E call \in NewCalls : RepoCreate(call)
  \/ \E id \in StoreIds, updates \in UpdateShapes : RepoUpdate(id, updates)

SpecStore == Init /\ [][NextStore]_vars

\* Call initiation, with the microtask queue drained: a continuation that
\* waits on a settled promise runs
SpecRouteLive ==
  /\ SpecRoute
  /\ \A t \in Slots : WF_vars(makeCall_emit(t))
  /\ \A t \in Slots : WF_vars(makeOutgoingCall_create(t))
  /\ \A t \in Slots : WF_vars(makeOutgoingCall_emit(t))

----------------------------------------------------------------------------
(* Properties of the call lifecycle *)

\* task t runs a continuation in this step
Moves(t) == tasks'[t] # tasks[t]

\* C1: terminal states are absorbing: no step changes the status of a stored
\* call whose status is 'ended' or 'failed'.
C1_TerminalAbsorbing ==
  [][\A id \in DOMAIN calls :
       calls[id].status \in Terminal =>
         id \in DOMAIN calls' /\ calls'[id].status = calls[id].status]_vars

\* C2: a hangup (endCall from the API, or an AMI Hangup event) that read the
\* call as 'ended' or 'failed' is not applied: it writes nothing, emits no
\* notification, and the API caller gets an error (stated here for any
\* error, the invalid-state error included).
C2_NoRefinalize ==
  \A i \in 1 .. Len(returned) :
    returned[i].kind \in {"end", "Hangup"} /\ returned[i].status \in Terminal =>
      /\ ~returned[i].wrote
      /\ emitted = <<>>
      /\ returned[i].kind = "end" => returned[i].result # "ok"

\* C3: for every stored call, endTime and duration are both set if and only
\* if its status is 'ended' or 'failed'.
C3_EndFieldsIffTerminal ==
  \A id \in DOMAIN calls :
    (calls[id].endTime # Unset /\ calls[id].duration # Unset)
      <=> calls[id].status \in Terminal

\* C4: acceptCall of the Asterisk service, on the status it read: if
\* 'incoming' it sets the call to 'connected' and then emits one 'connected'
\* notification and succeeds; on any other status it fails with an error,
\* leaves the repository unchanged and emits nothing.
C4_AcceptOnlyFromIncoming ==
  [][\A t \in Slots :
       /\ (tasks[t].pc = "acc_got" /\ Moves(t)) =>
            IF tasks[t].snap.status = "incoming"
            THEN /\ calls'[tasks[t].id].status = "connected"
                 /\ tasks'[t].pc = "acc_updated"
                 /\ returned' = <<>>
            ELSE /\ calls' = calls
                 /\ emitted' = <<>>
                 /\ tasks'[t] = IdleTask
                 /\ Len(returned') = 1
                 /\ returned'[1].result \in {"err_state", "err_not_found"}
       /\ (tasks[t].pc = "acc_updated" /\ Moves(t)) =>
            /\ tasks[t].snap.status = "incoming"
            /\ calls' = calls
            /\ emitted' = <<CallEvent("connected", tasks[t].id, "asterisk")>>
            /\ returned'[1].result = "ok"]_vars

\* C4 witness: an acceptCall on a call that is already 'connected' was just
\* rejected with the invalid-state error.
C4_Witness ==
  \E i \in 1 .. Len(returned) :
    /\ returned[i].kind = "accept"
    /\ returned[i].status = "connected"
    /\ returned[i].result = "err_state"

\* C5: of two concurrent acceptCall / rejectCall operations on the same
\* 'incoming' call at most one commits a transition.
C5_AtMostOneCommits ==
  \A t1, t2 \in Slots :
    (/\ t1 # t2
     /\ tasks[t1].kind \in {"accept", "reject"}
     /\ tasks[t2].kind \in {"accept", "reject"}
     /\ tasks[t1].id = tasks[t2].id)
    => ~(tasks[t1].wrote /\ tasks[t2].wrote)

\* C6: rejectCall commits its transition to 'ended' only on a call whose
\* status is 'incoming': whenever a rejectCall writes to the repository, the
\* stored status of its call was 'incoming'.
C6_RejectOnlyFromIncoming ==
  [][\A t \in Slots :
       (tasks[t].kind = "reject" /\ ~tasks[t].wrote /\ tasks'[t].wrote) =>
         StatusOf(calls, tasks[t].id) = "incoming"]_vars

\* C7 (as claimed): two deliveries in a row of the same status webhook for an
\* existing cloud call produce exactly one notification.
C7_ExactlyOneNotification ==
  (/\ lastAct.op = "statusWebhook"
   /\ lastAct.rep
   /\ calls[lastAct.id].provider = "twilio")
  => lastAct.repN + Len(emitted) = 1

\* C7 (amended): two deliveries in a row of the same status webhook for an
\* existing call produce at most one notification and one record change:
\* the first delivery emits one notification exactly when the status maps to
\* a status other than the call's, and the second delivery neither changes
\* the repository nor emits anything.
C7_SecondDeliveryNoOp ==
  /\ [](lastAct.op = "statusWebhook" /\ lastAct.rep =>
          /\ emitted = <<>>
          /\ lastAct.repN <= 1
          /\ lastAct.repN = 1 <=> lastAct.mapped # lastAct.pre0
          /\ calls[lastAct.id].status = lastAct.mapped)
  /\ [][lastAct'.op = "statusWebhook" /\ lastAct'.rep => calls' = calls]_vars

\* C7 witness: the second of two identical deliveries has been handled, the
\* first having changed the call and emitted one notification.
C7_Witness ==
  /\ lastAct.op = "statusWebhook"
  /\ lastAct.rep
  /\ lastAct.repN = 1
  /\ calls[lastAct.id].provider = "twilio"

\* C8: a provider-reported failure ('busy', 'no-answer', 'failed' from the
\* status webhook; 'busy', 'no-answer' from the dial-status webhook) on a
\* non-terminal call leaves the call in status 'failed'.
C8_FailureMapsToFailed ==
  (/\ lastAct.op \in {"statusWebhook", "dialStatus"}
   /\ lastAct.arg \in {"busy", "no-answer", "failed"}
   /\ lastAct.pre \in CallStatuses \ Terminal)
  => calls[lastAct.id].status = "failed"

\* C9: the status lookup is total: whatever status string a webhook carries,
\* it is mapped to one of the five canonical statuses, and a string the
\* lookup has no case for is mapped to 'failed'.
C9_LookupTotal ==
  lastAct.op = "statusWebhook" =>
    /\ lastAct.mapped \in CallStatuses
    /\ lastAct.arg \notin MappedStatuses => lastAct.mapped = "failed"

\* C9 witness: a webhook with a status the lookup has no case for was handled.
C9_Witness ==
  /\ lastAct.op = "statusWebhook"
  /\ lastAct.arg = "bogus"
  /\ lastAct.mapped = "failed"

\* C10: 'incoming' and 'outgoing' are entry states only: no step changes the
\* status of an existing call to 'incoming' or 'outgoing'.
C10_EntryStatesOnly ==
  [][\A id \in DOMAIN calls :
       (id \in DOMAIN calls' /\ calls'[id].status \in {"incoming", "outgoing"}) =>
         calls'[id].status = calls[id].status]_vars

----------------------------------------------------------------------------
(* Properties of the router and of the AMI connection *)

\* No command is ever outstanding: sendAmiCommand registers a command only
\* when isConnected, and isConnected is set only by the continuation of a
\* registered Login.
NoCommandOutstanding ==
  /\ ~isConnected
  /\ pendingActions = {}
  /\ actionId = 0
  /\ written = <<>>

\* C11: routing is a function of the request: the provider the request
\* names if it names one; otherwise the cloud backend when the destination
\* starts with '+' or has 7 characters or more, and the PBX backend for every
\* other destination (6 characters or fewer, no leading '+').
C11_RoutingFunction ==
  routed # NoRoute =>
    LET to == routed.request.to
        named == routed.request.provider
    IN routed.selectedProvider =
         IF named # "" THEN named
         ELSE IF (Len(to) >= 1 /\ to[1] = "+") \/ Len(to) >= 7 THEN "twilio"
         ELSE "asterisk"

\* C11 witness: a request naming no provider, with a destination of 7 digits,
\* was routed to the cloud backend.
C11_Witness ==
  /\ routed.request.provider = ""
  /\ Len(routed.request.to) = 7
  /\ routed.request.to[1] # "+"
  /\ routed.selectedProvider = "twilio"

\* C14: the reconnect delay armed after a failure is min(1s * 2^k, 30s),
\* where k is the number of failures counted before it: 1s for the first
\* failure from a fresh counter, then 2s, 4s, 8s, 16s, 30s, 30s, ...
C14_BackoffSequence ==
  [][(reconnectTimer = 0 /\ reconnectTimer' # 0) =>
       reconnectTimer' =
         IF 1000 * (2 ^ connectionAttempts) < 30000
         THEN 1000 * (2 ^ connectionAttempts) ELSE 30000]_vars

\* C15: once the attempt counter has reached maxRetries no reconnect timer
\* is pending, and no step other than reconnect() arms one or starts a
\* connection attempt.
C15_NoRetryAtCeiling ==
  [][(connectionAttempts >= maxRetries /\ lastAct'.op # "reconnect") =>
       /\ reconnectTimer = 0
       /\ reconnectTimer' = 0
       /\ \A s \in SockIds : sockets'[s] = "connecting" => sockets[s] = "connecting"]_vars

\* C15 witness: a socket failed after the counter had reached maxRetries,
\* and no timer is armed.
C15_Witness ==
  /\ lastAct.op \in {"socketError", "socketClose"}
  /\ connectionAttempts >= maxRetries + 2
  /\ reconnectTimer = 0

\* C16: reconnect() resets the attempt counter to 0, leaves no reconnect
\* timer pending and starts a connection attempt on a new socket at once;
\* a failure that follows it is counted as the first failure and arms the
\* first delay of the backoff sequence.
C16_ManualReconnect ==
  [][/\ lastAct'.op = "reconnect" =>
          /\ connectionAttempts' = 0
          /\ reconnectTimer' = 0
          /\ amiSocket' # NoSocket
          /\ sockets[amiSocket'] = "none"
          /\ sockets'[amiSocket'] = "connecting"
     /\ (lastAct.op = "reconnect" /\ lastAct'.op \in {"socketError", "socketClose"}) =>
          LET first == scheduleReconnect([connectionAttempts |-> 0,
                                          reconnectTimer |-> 0,
                                          reconnectTimers |-> 0])
          IN /\ connectionAttempts' = first.connectionAttempts
             /\ reconnectTimer' = first.reconnectTimer]_vars

\* C16 witness: reconnect() was called while a reconnect timer was pending.
C16_Witness ==
  /\ lastAct.op = "reconnect"
  /\ lastAct.arg = "timer_cleared"
  /\ sockets[amiSocket] = "connecting"

\* C17: when the 'connect' handler of a socket has run, a Login command has
\* been written to the socket (the first command written) and awaits its
\* answer.
C17_LoginWritten ==
  lastAct.op = "connect" =>
    /\ Len(written) >= 1
    /\ written[1].Action = "Login"
    /\ \E p \in pendingActions : p.command = "Login"

\* C18: while the login has not succeeded (isConnected is false), data
\* received on the socket starts no event handler and creates or changes no
\* call record.
C18_NoEventBeforeLogin ==
  [][~isConnected =>
       \A t \in Slots :
         tasks'[t].kind \in {"Newchannel", "Hangup", "Newstate"} => tasks'[t] = tasks[t]]_vars

\* C19: a login that fails counts as a failed attempt: with no reconnect
\* timer pending, the attempt counter is incremented and, below maxRetries,
\* a reconnect timer is armed.
C19_FailedLoginBacksOff ==
  [][(lastAct'.op = "connect" /\ lastAct'.arg = "login_rejected" /\ reconnectTimer = 0) =>
       /\ connectionAttempts' = connectionAttempts + 1
       /\ connectionAttempts + 1 < maxRetries => reconnectTimer' # 0]_vars

\* C20: a command issued while the client is not connected (isConnected
\* false or no socket) is rejected at once: nothing is written to the
\* socket, no pending action is registered (and so no timer armed), and the
\* action id counter is not advanced.
C20_FailFast ==
  [][(lastAct'.op = "connect" /\ (~isConnected \/ amiSocket = NoSocket)) =>
       /\ lastAct'.arg = "login_rejected"
       /\ written' = written
       /\ pendingActions' = pendingActions
       /\ actionId' = actionId]_vars

\* C20 witness: the Login issued by a 'connect' handler was rejected at once.
C20_Witness ==
  /\ lastAct.op = "connect"
  /\ lastAct.arg = "login_rejected"
  /\ \E s \in SockIds : sockets[s] = "open"

----------------------------------------------------------------------------
(* Properties of degraded operation, framing and the store *)

\* C21: while the PBX is not connected, makeCall sends no command and does
\* not wait on the PBX: up to its first await it creates a record with
\* status 'outgoing' and provider 'asterisk'; its continuation emits one
\* 'outgoing' notification for that call and returns normally; no makeCall
\* fails; and every makeCall that was started returns.
C21_SimulatedWhenDown ==
  /\ [][\A t \in Slots :
          /\ (~isConnected /\ tasks[t].pc = "idle" /\ tasks'[t].kind = "makeCall") =>
               /\ tasks'[t].pc = "mk_created"
               /\ tasks'[t].id \in DOMAIN calls' \ DOMAIN calls
               /\ calls'[tasks'[t].id].status = "outgoing"
               /\ calls'[tasks'[t].id].provider = "asterisk"
               /\ written' = written
               /\ pendingActions' = pendingActions
               /\ emitted' = <<>>
          /\ (tasks[t].kind = "makeCall" /\ Moves(t)) =>
               /\ emitted' = <<CallEvent("outgoing", tasks[t].id, "asterisk")>>
               /\ calls' = calls
               /\ Len(returned') = 1
               /\ returned'[1].kind = "makeCall"
               /\ returned'[1].id = tasks[t].id
               /\ returned'[1].result = "ok"
          /\ \A i \in 1 .. Len(returned') :
               (~isConnected /\ returned'[i].kind = "makeCall") =>
                 returned'[i].result = "ok"]_vars
  /\ \A t \in Slots :
       (tasks[t].kind = "makeCall") ~> (tasks[t].kind # "makeCall")

\* C21 witness: a makeCall placed while the PBX was not connected returned,
\* and its record is in the store.
C21_Witness ==
  /\ ~isConnected
  /\ Len(returned) = 1
  /\ returned[1].kind = "makeCall"
  /\ returned[1].result = "ok"
  /\ calls[returned[1].id].status = "outgoing"
  /\ emitted = <<CallEvent("outgoing", returned[1].id, "asterisk")>>

\* C22: an answered event (Newstate, ChannelState 6) whose Channel is the
\* backend handle of an 'outgoing' PBX call sets that call to 'connected',
\* and a Hangup event whose Channel is the backend handle of a 'connected'
\* PBX call sets it to 'ended' with a duration of at least 0: the handler
\* the event starts runs in the step after the event is taken.
C22_EventsByHandle ==
  [][(lastAct.op = "amiEvent" /\ lastAct.id \in DOMAIN calls) =>
       LET call == calls[lastAct.id]
           after == calls'[lastAct.id]
       IN /\ (lastAct.arg = "Newstate" /\ call.status = "outgoing") =>
               after.status = "connected"
          /\ (lastAct.arg = "Hangup" /\ call.status = "connected") =>
               /\ after.status = "ended"
               /\ after.duration # Unset
               /\ after.duration[1] >= 0]_vars

\* C23: whatever the chunks, the messages dispatched are the messages of the
\* stream: always the first ones of the blank-line-terminated messages of
\* the whole stream, in order, and all of them once the whole stream was
\* received; what is left in the buffer holds no terminator.
C23_FramingIgnoresChunking ==
  LET whole == frameLoop(toString(stream), <<>>)
  IN /\ Len(dispatched) <= Len(whole.dispatched)
     /\ dispatched = SubSeq(whole.dispatched, 1, Len(dispatched))
     /\ received = Len(stream) => dispatched = whole.dispatched
     /\ indexOf(buffer, <<"r", "n", "r", "n">>) = 0

C28_UpdateMerges ==
  [][repoCall'.op = "updateCall" /\ repoCall' # repoCall =>
       LET id == repoCall'.id
           updates == repoCall'.updates
       IN IF id \in DOMAIN calls
          THEN /\ DOMAIN calls' = DOMAIN calls
               /\ \A other \in DOMAIN calls \ {id} : calls'[other] = calls[other]
               /\ DOMAIN calls'[id] = DOMAIN calls[id] \cup DOMAIN updates
               /\ \A f \in DOMAIN updates : calls'[id][f] = updates[f]
               /\ \A f \in DOMAIN calls[id] \ DOMAIN updates :
                    calls'[id][f] = calls[id][f]
               /\ repoCall'.result = calls'[id]
          ELSE /\ calls' = calls
               /\ repoCall'.result = NoCall]_vars

\* C28 witness: with two records in the store, an update naming status and
\* endTime was applied to one that had a duration already.
C28_Witness ==
  /\ repoCall.op = "updateCall"
  /\ DOMAIN repoCall.updates = {"status", "endTime"}
  /\ DOMAIN calls = StoreIds
  /\ repoCall.id \in DOMAIN calls
  /\ calls[repoCall.id].duration # Unset

\* C29: at most one socket created by the client is open (connected, with
\* its handlers attached) at any time.
C29_SingleConnection ==
  Cardinality({s \in SockIds : sockets[s] = "open"}) <= 1

\* C30: of the handlers started by deliveries of the answered event
\* (Newstate, ChannelState 6) for one call, at most one sets the call to
\* 'connected' (and then emits 'connected'): no two of them in flight have
\* both written.
C30_AnsweredOnce ==
  \A t1, t2 \in Slots :
    (/\ t1 # t2
     /\ tasks[t1].kind = "Newstate"
     /\ tasks[t2].kind = "Newstate"
     /\ tasks[t1].id = tasks[t2].id)
    => ~(tasks[t1].wrote /\ tasks[t2].wrote)

----------------------------------------------------------------------------
(* Properties of ordering, timers, shutdown and notifications *)

\* C32: at most one reconnect timer is live at any time; a step arms at
\* most one; scheduleReconnect arms none while one is pending; reconnect()
\* and cleanup() leave none live.
C32_SingleTimer ==
  /\ [](reconnectTimers <= 1)
  /\ [](reconnectTimers = 1 <=> reconnectTimer # 0)
  /\ [][/\ reconnectTimers' <= reconnectTimers + 1
        /\ (reconnectTimers = 1 /\ lastAct'.op \in {"socketError", "socketClose"}) =>
             /\ reconnectTimers' = 1
             /\ reconnectTimer' = reconnectTimer
        /\ lastAct'.op \in {"reconnect", "cleanup"} => reconnectTimers' = 0]_vars

\* C32 witness: a socket failed (its 'error' and then its 'close' handler
\* ran) while a reconnect timer was pending, and one timer is live.
C32_Witness ==
  /\ lastAct.op = "socketError"
  /\ lastAct.arg = "timer_pending"
  /\ reconnectTimers = 1

\* C35: the periodic simulation generates an incoming call only once the
\* retry ceiling has been reached: when an interval has just generated a
\* call, the attempt counter is at maxRetries or above, no reconnect timer
\* is pending and the client is not connected.
C35_SimulationOnlyAtCeiling ==
  (lastAct.op = "simulationTick" /\ lastAct.arg = "call") =>
    /\ connectionAttempts >= maxRetries
    /\ reconnectTimer = 0
    /\ ~isConnected

\* C37: once cleanup() has returned (and until reconnect() is called), no
\* step leaves a reconnect timer pending, starts a connection attempt or
\* generates a simulated call; the steps include the 'close' event of the
\* socket cleanup() destroyed.
C37_CleanupQuiescent ==
  [][(cleaned /\ cleaned') =>
       /\ reconnectTimer' = 0
       /\ reconnectTimers' = 0
       /\ \A s \in SockIds : sockets'[s] = "connecting" => sockets[s] = "connecting"
       /\ ~(lastAct'.op = "simulationTick" /\ lastAct'.arg = "call")]_vars

\* C31: events are processed in wire order: once the handlers of the events
\* of a data chunk have all completed, the store and the notifications
\* emitted since the chunk arrived are those that result from handling the
\* events one after the other, each to completion.
C31_WireOrder ==
  (expected # NoExpected /\ \A t \in Slots : tasks[t].pc = "idle") =>
    /\ calls = expected.calls
    /\ log = expected.log

C34_ForwardedToSink ==
  \A i \in 1 .. Len(emitted) : "ioEmit" \in deliveredTo(emitted[i])

\* C40: the type of a notification is the status the call has as a result
\* of the transition it reports.  A step that writes the store and emits (a
\* webhook) emits the status it just wrote.  An operation that writes in one
\* step and emits in a later one writes, and later emits as the type, the
\* same status (the one listed for the await it is at).
C40_TypeIsStatus ==
  [][LET reports(pc) ==
           CASE pc \in {"inc_created", "sim_created"} -> "incoming"
             [] pc \in {"mk_created", "twc_created"} -> "outgoing"
             [] pc \in {"acc_updated", "evc_updated"} -> "connected"
             [] pc \in {"rej_updated", "hang_updated", "tw_updated", "evh_updated"}
                  -> "ended"
             [] OTHER -> "none"
     IN /\ \A t \in Slots :
             /\ (Moves(t) /\ tasks'[t].wrote /\ reports(tasks'[t].pc) # "none") =>
                  /\ emitted' = <<>>
                  /\ calls'[tasks'[t].id].status = reports(tasks'[t].pc)
             /\ (Moves(t) /\ tasks[t].wrote /\ reports(tasks[t].pc) # "none") =>
                  /\ Len(emitted') = 1
                  /\ emitted'[1].callId = tasks[t].id
                  /\ emitted'[1].type = reports(tasks[t].pc)
        /\ (emitted' # <<>> /\ calls' # calls) =>
             \A i \in 1 .. Len(emitted') :
               /\ emitted'[i].callId \in DOMAIN calls'
               /\ calls'[emitted'[i].callId].status = emitted'[i].type]_vars

\* C36: whenever a step sets a call's duration, the duration is
\* max(0, floor((endTime - startTime) / 1000)) of the call's stored times:
\* never negative, whatever the clock shows at the end and whatever dial
\* duration the provider reports.
C36_DurationClamped ==
  [][\A id \in DOMAIN calls' :
       LET after == calls'[id]
           elapsed == (after.endTime[1] - after.startTime) \div MsPerSecond
           wasSet == \/ id \notin DOMAIN calls
                     \/ calls[id].duration # after.duration
                     \/ calls[id].endTime # after.endTime
       IN (wasSet /\ after.duration # Unset) =>
            /\ after.endTime # Unset
            /\ after.duration[1] = IF elapsed < 0 THEN 0 ELSE elapsed]_vars

====
